---- MODULE Spec2Model ----
(***************************************************************************)
(* State-machine model of the two extractors of the repository:            *)
(*   AmazonAdsFetcher  (src/amazon_ads_fetcher.py)                         *)
(*   BingAdsExtractor  (src/repl/integration-files/bing/bing_extractor.py) *)
(* One action is one step of the single sequential flow of control; every  *)
(* network call is one action whose response is chosen by the environment. *)
(***************************************************************************)
EXTENDS Integers, Sequences, FiniteSets, TLC

VARIABLES
    prog,          \* the public method that was called on the instance
    pc,            \* position of the flow of control
    outcome,       \* "running", "returned" or "raised" for the method called
    access_token,  \* self.access_token
    wire,          \* the most recent network call: its endpoint, and a bit
                   \* that flips at every call
    first,         \* endpoint of the first network call ("none" before it)
    tokenLog,      \* token endpoint responses received so far
    \* ---- paginated fetches (AmazonAdsFetcher) ----
    startIndex,    \* params["startIndex"]
    payloadNext,   \* payload["nextToken"] / payload["cursorId"], Absent if unset
    campaigns,     \* the local accumulator (campaigns / reports)
    reqs,          \* page state carried by each request of the current fetch
    resps,         \* responses received by the current fetch, in arrival order
    fn,            \* the paginated fetch entered last: "sd", "sb", "sp", "attr"
    fstat,         \* "idle", "active", "returned" (loop left) or "failed" (except)
    fret,          \* value returned by the most recent paginated fetch
    \* ---- fetch_all_data ----
    profiles, pidx, partial, all_data,
    fetchLog,      \* fetches fetch_all_data has made: profile, fetch, how it ended
    \* ---- BingAdsExtractor.extract_all ----
    include_performance_reports,
    users, uidx,   \* the users list and the position of the outer loop
    accounts, aidx,\* the accounts of the current user and the inner position
    result,        \* the result document under construction
    campLog,       \* get_campaigns calls of extract_all: account, outcome, body
    reportLog,     \* report jobs of extract_all that are over: account, outcome
    acctCalls,     \* user ids the accounts search was called with
    submitCalls,   \* account ids the report submit call was issued for
    \* ---- get_performance_report ----
    max_wait_seconds,
    report_id,     \* value returned by submit_performance_report
    elapsed,       \* time.time() - start_time
    download_url,
    pollLog,       \* what each poll of the current report job came back with
    sleeps,        \* sleeps taken by the current report job
    lastPoll,      \* the most recent poll response
    downloadedFrom,\* downloads of the current report job: URL and payload
    rstat,         \* client-side state of the current report job
    rret,          \* records returned by the most recent report job
    exc            \* the most recent exception raised

\* ------------------------------------------------------------------------
\* Values
\* ------------------------------------------------------------------------
None == "None"           \* Python None
Absent == "absent"       \* a key that is not in the dict
Falsy == {None, "", Absent}

PageSize == 100          \* "count": 100 and the literal 100 of the offset loop
MaxPages == 3            \* requests per paginated fetch called on its own
MaxProfiles == 2         \* profiles returned by /v2/profiles
MaxUsers == 2            \* users returned by User/Query
MaxAccounts == 3         \* accounts the scripted server holds, over all users
MaxTokenCalls == 2       \* calls the token endpoint answers for one instance
Delay == 10              \* time.sleep(10)
DefaultMaxWait == 300    \* max_wait_seconds: int = 300

Items(n) == [i \in 1..n |-> i]

FetchProgs == {"get_sponsored_display_campaigns", "get_sponsored_brands_campaigns",
               "get_sponsored_products_campaigns",
               "get_attribution_performance_campaign"}
InRun == prog = "fetch_all_data"

\* A response: HTTP status and, for a 200, the decoded JSON body.
Resp(st, hasItems, items, next) ==
    [status |-> st, hasItems |-> hasItems, items |-> items, next |-> next]
Failure(st) == Resp(st, FALSE, <<>>, Absent)
FailStatuses == IF InRun THEN {500} ELSE {400, 500}

\* Bodies the offset endpoint can return: a top-level array.  The last page
\* a scripted server may send is never a full one.
SDLens == IF InRun THEN {0, 1}
          ELSE IF Len(reqs) + 1 < MaxPages THEN {0, 40, PageSize} ELSE {0, 40}
SDResponses == {Failure(s) : s \in FailStatuses}
               \cup {Resp(200, TRUE, Items(n), Absent) : n \in SDLens}

\* Bodies of the token / cursor endpoints: optional item list, optional token.
TokenItems == IF InRun THEN {<<"a">>} ELSE {<<>>, <<"a">>, <<"b", "a">>}
NextTokens == IF InRun THEN {Absent}
              ELSE IF Len(reqs) + 1 < MaxPages THEN {Absent, "", "t1", "t2"}
              ELSE {Absent, ""}
TokenResponses ==
    {Failure(s) : s \in FailStatuses}
    \cup {Resp(200, TRUE, it, nx) : it \in TokenItems, nx \in NextTokens}
    \cup (IF InRun THEN {} ELSE {Resp(200, FALSE, <<>>, nx) : nx \in NextTokens})

\* raise_for_status(): 4xx and 5xx raise
Raises(resp) == resp.status >= 400

Endpoints == {"token", "profiles", "sd", "sb", "sp", "attr",
              "users", "accounts", "campaigns", "submit", "poll", "download"}
Called(ep) == /\ wire' = [ep |-> ep, bit |-> 1 - wire.bit]
              /\ first' = IF first = "none" THEN ep ELSE first

\* ------------------------------------------------------------------------
\* Loop bodies of the paginated fetches, as functions of the decoded body
\* ------------------------------------------------------------------------
\* SDBody with the short-page test written <= : a full page ends the fetch
SDBodyFullPageStops(acc, idx, data) ==
    IF data = <<>> THEN [acc |-> acc, idx |-> idx, brk |-> TRUE]
    ELSE IF Len(data) <= PageSize
         THEN [acc |-> acc \o data, idx |-> idx, brk |-> TRUE]
         ELSE [acc |-> acc \o data, idx |-> idx + PageSize, brk |-> FALSE]

\* SDBody with a cap of two pages on the client side
SDBodyTwoPagesOnly(acc, idx, data) ==
    IF data = <<>> THEN [acc |-> acc, idx |-> idx, brk |-> TRUE]
    ELSE IF Len(data) < PageSize \/ idx >= PageSize
         THEN [acc |-> acc \o data, idx |-> idx, brk |-> TRUE]
         ELSE [acc |-> acc \o data, idx |-> idx + PageSize, brk |-> FALSE]

\* lines 91-99: empty page -> break; extend; short page -> break; advance
SDBody(acc, idx, data) ==
    IF data = <<>> THEN [acc |-> acc, idx |-> idx, brk |-> TRUE]
    ELSE IF Len(data) < PageSize
         THEN [acc |-> acc \o data, idx |-> idx, brk |-> TRUE]
         ELSE [acc |-> acc \o data, idx |-> idx + PageSize, brk |-> FALSE]

\* TokenBody with the token test before the extend: the items of the last
\* response are lost
TokenBodyDropsLast(acc, next, resp) ==
    IF resp.next \in Falsy
    THEN [acc |-> acc, next |-> next, brk |-> TRUE]
    ELSE [acc |-> IF resp.hasItems THEN acc \o resp.items ELSE acc,
          next |-> resp.next, brk |-> FALSE]

\* TokenBody that never copies the returned token into the payload
TokenBodyStale(acc, next, resp) ==
    LET acc2 == IF resp.hasItems THEN acc \o resp.items ELSE acc
    IN  IF resp.next \in Falsy
        THEN [acc |-> acc2, next |-> next, brk |-> TRUE]
        ELSE [acc |-> acc2, next |-> next, brk |-> FALSE]

\* lines 129-135 (165-171, 205-211): extend if the key is there; stop on a
\* missing or falsy token; else copy the token into the payload
TokenBody(acc, next, resp) ==
    LET acc2 == IF resp.hasItems THEN acc \o resp.items ELSE acc
    IN  IF resp.next \in Falsy
        THEN [acc |-> acc2, next |-> next, brk |-> TRUE]
        ELSE [acc |-> acc2, next |-> resp.next, brk |-> FALSE]

\* ------------------------------------------------------------------------
\* AmazonAdsFetcher
\* ------------------------------------------------------------------------
tokVars == <<access_token, tokenLog>>
fetchLocals == <<startIndex, payloadNext, campaigns, reqs, resps, fn>>
fetchOut == <<fstat, fret>>
runVars == <<profiles, pidx, partial, all_data>>
amazonVars == <<fetchLocals, fetchOut, runVars, fetchLog>>
reportVars == <<max_wait_seconds, report_id, elapsed, download_url,
                pollLog, sleeps, lastPoll, downloadedFrom, rstat, rret>>
bingVars == <<include_performance_reports, users, uidx, accounts, aidx, result,
              campLog, reportLog, acctCalls, submitCalls, reportVars, exc>>

\* Token endpoint responses: status, and the access_token field of the body
TokenEndpointResponses ==
    {[status |-> 500, token |-> Absent]}
    \cup {[status |-> 200, token |-> t] :
            t \in IF prog = "extract_all" THEN {Absent, "tok"} ELSE {Absent, "", "tok"}}

\* refresh_access_token as called at the top of fetch_all_data: no cache
\* check; data.get("access_token") stores None when the field is missing
refresh_access_token ==
    /\ prog = "fetch_all_data" /\ pc = "refresh"
    /\ \E r \in TokenEndpointResponses :
         /\ Called("token")
         /\ tokenLog' = Append(tokenLog, r)
         /\ IF r.status >= 400
            THEN /\ outcome' = "raised" /\ pc' = "aborted"
                 /\ UNCHANGED access_token
            ELSE /\ access_token' = IF r.token = Absent THEN None ELSE r.token
                 /\ pc' = "get_profiles"
                 /\ UNCHANGED outcome
    /\ UNCHANGED <<prog, fetchLocals, fetchOut, runVars, fetchLog, bingVars>>

\* get_profiles and the construction of all_data (lines 62-73, 222-228)
ProfileLists == {Items(n) : n \in 0..MaxProfiles}
get_profiles ==
    /\ prog = "fetch_all_data" /\ pc = "get_profiles"
    /\ \E ok \in BOOLEAN, lst \in ProfileLists :
         /\ ~ok => lst = <<>>
         /\ Called("profiles")
         /\ profiles' = lst
         /\ all_data' = [profiles |-> lst, campaigns |-> <<>>, performance |-> <<>>]
         /\ pidx' = 1
         /\ IF lst = <<>>
            THEN pc' = "done" /\ outcome' = "returned"
            ELSE pc' = "sd_enter" /\ UNCHANGED outcome
    /\ UNCHANGED <<prog, tokVars, fetchLocals, fetchOut, partial, fetchLog, bingVars>>

\* What the caller does with the value a paginated fetch returns: a direct
\* call hands it to the caller; fetch_all_data stores it under the profile
\* (lines 236-245) and moves on to the next fetch / the next profile.
FetchDone(value, how) ==
    /\ fstat' = how
    /\ fret' = value
    /\ fetchLog' = IF InRun
                   THEN Append(fetchLog, [pid |-> profiles[pidx], fn |-> fn,
                                          ok |-> how = "returned", items |-> value])
                   ELSE fetchLog
    /\ IF ~InRun
       THEN /\ pc' = "done" /\ outcome' = "returned"
            /\ UNCHANGED <<pidx, partial, all_data>>
       ELSE LET pid == profiles[pidx] IN
            CASE pc = "sd_loop" ->
                   /\ partial' = <<value>>
                   /\ pc' = "sb_enter"
                   /\ UNCHANGED <<outcome, pidx, all_data>>
              [] pc = "sb_loop" ->
                   /\ partial' = Append(partial, value)
                   /\ pc' = "sp_enter"
                   /\ UNCHANGED <<outcome, pidx, all_data>>
              [] pc = "sp_loop" ->
                   /\ all_data' = [all_data EXCEPT !.campaigns =
                         (pid :> [sponsored_display |-> partial[1],
                                  sponsored_brands |-> partial[2],
                                  sponsored_products |-> value]) @@ @]
                   /\ partial' = <<>>
                   /\ pc' = "attr_enter"
                   /\ UNCHANGED <<outcome, pidx>>
              [] pc = "attr_loop" ->
                   /\ all_data' = [all_data EXCEPT !.performance =
                         (pid :> [attribution_campaign |-> value]) @@ @]
                   /\ pidx' = pidx + 1
                   /\ UNCHANGED partial
                   /\ IF pidx + 1 > Len(profiles)
                      THEN pc' = "done" /\ outcome' = "returned"
                      ELSE pc' = "sd_enter" /\ UNCHANGED outcome
FetchContinue == UNCHANGED <<pc, outcome, fetchOut, pidx, partial, all_data, fetchLog>>

\* Entry of a paginated fetch: the request state and the accumulator are
\* built afresh (lines 77-84, 117-122, 153-158, 185-194)
FetchEnter(at, loop, name) ==
    /\ pc = at
    /\ pc' = loop
    /\ fn' = name
    /\ startIndex' = 0
    /\ payloadNext' = Absent
    /\ campaigns' = <<>>
    /\ reqs' = <<>> /\ resps' = <<>>
    /\ fstat' = "active"
    /\ UNCHANGED <<prog, outcome, tokVars, wire, first, fret, runVars, fetchLog,
                   bingVars>>
SDEnter == FetchEnter("sd_enter", "sd_loop", "sd")
SBEnter == FetchEnter("sb_enter", "sb_loop", "sb")
SPEnter == FetchEnter("sp_enter", "sp_loop", "sp")
AttrEnter == FetchEnter("attr_enter", "attr_loop", "attr")

\* The value the except clause of a paginated fetch returns (return [])
OnException(acc) == <<>>

\* get_sponsored_display_campaigns: one iteration of the while loop
SDStep ==
    /\ pc = "sd_loop"
    /\ \E resp \in SDResponses :
         /\ Called("sd")
         /\ reqs' = Append(reqs, startIndex)
         /\ resps' = Append(resps, resp)
         /\ UNCHANGED <<payloadNext, fn>>
         /\ IF Raises(resp)
            THEN /\ FetchDone(OnException(campaigns), "failed")
                 /\ UNCHANGED <<campaigns, startIndex>>
            ELSE LET b == SDBody(campaigns, startIndex, resp.items) IN
                 /\ campaigns' = b.acc
                 /\ startIndex' = b.idx
                 /\ IF b.brk THEN FetchDone(b.acc, "returned") ELSE FetchContinue
    /\ UNCHANGED <<prog, tokVars, profiles, bingVars>>

\* get_sponsored_brands_campaigns / get_sponsored_products_campaigns: one
\* iteration of the while loop
TokenStep(loop, ep) ==
    /\ pc = loop
    /\ \E resp \in TokenResponses :
         /\ Called(ep)
         /\ reqs' = Append(reqs, payloadNext)
         /\ resps' = Append(resps, resp)
         /\ UNCHANGED <<startIndex, fn>>
         /\ IF Raises(resp)
            THEN /\ FetchDone(OnException(campaigns), "failed")
                 /\ UNCHANGED <<campaigns, payloadNext>>
            ELSE LET b == TokenBody(campaigns, payloadNext, resp) IN
                 /\ campaigns' = b.acc
                 /\ payloadNext' = b.next
                 /\ IF b.brk THEN FetchDone(b.acc, "returned") ELSE FetchContinue
    /\ UNCHANGED <<prog, tokVars, profiles, bingVars>>
SBStep == TokenStep("sb_loop", "sb")
SPStep == TokenStep("sp_loop", "sp")

\* NoMoreData testing for 404 instead of 400
NoMoreDataOn404(resp) == resp.status = 404

\* Status of the attribution endpoint that ends the loop without an error
NoMoreData(resp) == resp.status = 400

\* get_attribution_performance_campaign: one iteration of the while loop;
\* the 400 test comes before raise_for_status
AttrStep ==
    /\ pc = "attr_loop"
    /\ \E resp \in TokenResponses :
         /\ Called("attr")
         /\ reqs' = Append(reqs, payloadNext)
         /\ resps' = Append(resps, resp)
         /\ UNCHANGED <<startIndex, fn>>
         /\ IF NoMoreData(resp)
            THEN /\ FetchDone(campaigns, "returned")
                 /\ UNCHANGED <<campaigns, payloadNext>>
            ELSE IF Raises(resp)
            THEN /\ FetchDone(OnException(campaigns), "failed")
                 /\ UNCHANGED <<campaigns, payloadNext>>
            ELSE LET b == TokenBody(campaigns, payloadNext, resp) IN
                 /\ campaigns' = b.acc
                 /\ payloadNext' = b.next
                 /\ IF b.brk THEN FetchDone(b.acc, "returned") ELSE FetchContinue
    /\ UNCHANGED <<prog, tokVars, profiles, bingVars>>


\* ------------------------------------------------------------------------
\* BingAdsExtractor
\* ------------------------------------------------------------------------
Truthy(x) == x \notin Falsy
InExtract == prog = "extract_all"
Min(S) == CHOOSE x \in S : \A y \in S : x <= y

AuthPcs == {"users_auth", "accounts_auth", "campaigns_auth", "submit_auth",
            "poll_auth"}
CallPc(p) ==
    CASE p = "users_auth" -> "users_call"
      [] p = "accounts_auth" -> "accounts_call"
      [] p = "campaigns_auth" -> "campaigns_call"
      [] p = "submit_auth" -> "submit_call"
      [] p = "poll_auth" -> "poll_call"
JobPcs == {"submit_auth", "submit_call", "poll_check", "poll_auth", "poll_call",
           "sleep", "download"}
ReportPcs == {"report_enter"} \cup JobPcs

\* A user / an account as far as the code reads it: 0 stands for a missing
\* (or null) field
User(id) == [Id |-> id]
Account(id, parent) == [Id |-> id, ParentCustomerId |-> parent]
\* ValidAccount without the customer id half of the test of line 306
ValidAccountIdOnly(a) == a.Id # 0
ValidUser(u) == u.Id # 0                          \* line 293
ValidAccount(a) == a.Id # 0 /\ a.ParentCustomerId # 0   \* line 306
CurAccount == IF InExtract THEN accounts[aidx] ELSE Account(11, 1)

\* for user in users / for account in accounts, with the two "continue"s
Abort == pc' = "aborted" /\ outcome' = "raised" /\ UNCHANGED <<uidx, aidx>>
GotoNextUser(ul, u) ==
    LET nxt == {i \in (u + 1)..Len(ul) : ValidUser(ul[i])} IN
    IF nxt = {}
    THEN pc' = "done" /\ outcome' = "returned" /\ uidx' = Len(ul) + 1 /\ aidx' = 0
    ELSE pc' = "accounts_auth" /\ uidx' = Min(nxt) /\ aidx' = 0 /\ UNCHANGED outcome
GotoNextAccount(accs, a) ==
    LET nxt == {i \in (a + 1)..Len(accs) : ValidAccount(accs[i])} IN
    IF nxt = {}
    THEN GotoNextUser(users, uidx)
    ELSE pc' = "campaigns_auth" /\ aidx' = Min(nxt) /\ UNCHANGED <<outcome, uidx>>
\* AfterCampaigns without the test of line 318: a report is always fetched
AfterCampaignsAlwaysReport ==
    pc' = "report_enter" /\ UNCHANGED <<outcome, uidx, aidx>>

\* line 318: if include_performance_reports
AfterCampaigns ==
    IF include_performance_reports
    THEN pc' = "report_enter" /\ UNCHANGED <<outcome, uidx, aidx>>
    ELSE GotoNextAccount(accounts, aidx)

\* Unwind with get_users and get_accounts wrapped in a try like get_campaigns:
\* the failure is swallowed and the loop goes on
UnwindContained(e, rs) ==
    /\ exc' = e
    /\ rstat' = IF pc \in ReportPcs THEN rs ELSE rstat
    /\ CASE pc \in {"users_auth", "users_call", "accounts_auth", "accounts_call"} ->
              GotoNextUser(users, uidx)
         [] pc \in {"campaigns_auth", "campaigns_call"} -> AfterCampaigns
         [] pc \in ReportPcs ->
              IF InExtract THEN GotoNextAccount(accounts, aidx) ELSE Abort

\* Unwind without the try of line 311: a get_campaigns failure leaves
\* extract_all
UnwindCampaignsFatal(e, rs) ==
    /\ exc' = e
    /\ rstat' = IF pc \in ReportPcs THEN rs ELSE rstat
    /\ CASE pc \in {"users_auth", "users_call", "accounts_auth", "accounts_call",
                    "campaigns_auth", "campaigns_call"} -> Abort
         [] pc \in ReportPcs ->
              IF InExtract THEN GotoNextAccount(accounts, aidx) ELSE Abort

\* Unwind without the try of line 320: a failed report job leaves
\* extract_all
UnwindReportFatal(e, rs) ==
    /\ exc' = e
    /\ rstat' = IF pc \in ReportPcs THEN rs ELSE rstat
    /\ CASE pc \in {"users_auth", "users_call", "accounts_auth", "accounts_call"} ->
              Abort
         [] pc \in {"campaigns_auth", "campaigns_call"} -> AfterCampaigns
         [] pc \in ReportPcs -> Abort

\* Unwind with a retry in the except clause of line 334: a failed report job
\* is submitted again for the same account
UnwindRetryReport(e, rs) ==
    /\ exc' = e
    /\ rstat' = IF pc \in ReportPcs THEN rs ELSE rstat
    /\ CASE pc \in {"users_auth", "users_call", "accounts_auth", "accounts_call"} ->
              Abort
         [] pc \in {"campaigns_auth", "campaigns_call"} -> AfterCampaigns
         [] pc \in ReportPcs ->
              IF InExtract
              THEN pc' = "report_enter" /\ UNCHANGED <<outcome, uidx, aidx>>
              ELSE Abort

\* Where an exception raised at the current position ends up: get_users and
\* get_accounts are called outside any try (lines 287, 297), get_campaigns
\* inside the try of line 311, get_performance_report inside that of line 320.
Unwind(e, rs) ==
    /\ exc' = e
    /\ rstat' = IF pc \in ReportPcs THEN rs ELSE rstat
    /\ CASE pc \in {"users_auth", "users_call", "accounts_auth", "accounts_call"} ->
              Abort
         [] pc \in {"campaigns_auth", "campaigns_call"} -> AfterCampaigns
         [] pc \in ReportPcs ->
              IF InExtract THEN GotoNextAccount(accounts, aidx) ELSE Abort
ctl == <<pc, outcome, uidx, aidx>>

\* One call of get_campaigns by extract_all: whether it returned, and the
\* campaigns the service sent
CampaignsCall(id, ok, data) == [id |-> id, ok |-> ok, data |-> data]

\* extract_all, lines 320-335: a report job that is left is over, either
\* with its entry appended to the result or in the except clause
LogJob ==
    reportLog' = IF InExtract /\ pc \in JobPcs /\ pc' \notin JobPcs
                 THEN Append(reportLog, [id |-> CurAccount.Id, ok |-> exc' = ""])
                 ELSE reportLog

\* Cached with the test of line 39 left out
CachedNever(tok) == FALSE

\* line 39: if self.access_token
Cached(tok) == Truthy(tok)

\* get_access_token, as called by _get_auth_headers before every API call
get_access_token ==
    /\ pc \in AuthPcs
    /\ IF Cached(access_token)
       THEN /\ pc' = CallPc(pc)
            /\ UNCHANGED <<outcome, uidx, aidx, wire, first, tokVars, exc, rstat>>
       ELSE /\ Len(tokenLog) < MaxTokenCalls
            /\ \E r \in TokenEndpointResponses :
                 /\ Called("token")
                 /\ tokenLog' = Append(tokenLog, r)
                 /\ IF r.status >= 400
                    THEN Unwind("HTTPError", "failed") /\ UNCHANGED access_token
                    ELSE IF r.token = Absent
                    THEN Unwind("KeyError", "failed") /\ UNCHANGED access_token
                    ELSE /\ access_token' = r.token
                         /\ pc' = CallPc(pc)
                         /\ UNCHANGED <<outcome, uidx, aidx, exc, rstat>>
    /\ campLog' = IF pc = "campaigns_auth" /\ pc' # "campaigns_call"
                  THEN Append(campLog, CampaignsCall(CurAccount.Id, FALSE, <<>>))
                  ELSE campLog
    /\ UNCHANGED <<prog, amazonVars, include_performance_reports, acctCalls, submitCalls,
                   users, accounts,
                   result, max_wait_seconds, report_id, elapsed,
                   download_url, pollLog, sleeps, lastPoll, downloadedFrom, rret>>
    /\ LogJob

\* line 85: the "User" field may be a list, a single object, or missing
UsersOf(kind, v) ==
    CASE kind = "list" -> v
      [] kind = "one" -> <<v>>
      [] kind = "absent" -> <<>>
UserLists ==
    UNION {{ul \in [1..n -> {User(0)} \cup {User(i) : i \in 1..n}] :
              /\ \A i \in 1..n : ul[i].Id \in {0, i}
              /\ Cardinality({i \in 1..n : ~ValidUser(ul[i])}) <= 1}
           : n \in 0..MaxUsers}
UserBodies == {[kind |-> "list", v |-> ul] : ul \in UserLists}
              \cup {[kind |-> "one", v |-> User(1)], [kind |-> "absent", v |-> <<>>]}

get_users ==
    /\ pc = "users_call"
    /\ \E ok \in BOOLEAN, body \in UserBodies :
         /\ Called("users")
         /\ IF ~ok
            THEN /\ body.kind = "absent"
                 /\ Unwind("HTTPError", rstat)
                 /\ UNCHANGED <<users, result>>
            ELSE LET ul == UsersOf(body.kind, body.v) IN
                 /\ users' = ul
                 /\ result' = [result EXCEPT !.users = ul]
                 /\ GotoNextUser(ul, 0)
                 /\ UNCHANGED <<exc, rstat>>
    /\ UNCHANGED <<prog, tokVars, amazonVars, include_performance_reports, acctCalls, submitCalls,
                   campLog, reportLog, accounts,
                   max_wait_seconds, report_id, elapsed, download_url,
                   pollLog, sleeps, lastPoll, downloadedFrom, rret>>

\* Accounts/Search for user u when the server has room accounts left to
\* return: the first of them may lack its Id or its ParentCustomerId
AccountLists(u, room) ==
    UNION {{al \in [1..n -> {Account(i, p) : i \in {0} \cup {10 * u + k : k \in 1..n},
                                             p \in {0, u}}] :
              /\ \A i \in 1..n : al[i].Id \in {0, 10 * u + i}
              /\ \A i \in 2..n : ValidAccount(al[i])
              /\ \A i \in 1..n : al[i].Id = 0 => al[i].ParentCustomerId = u}
           : n \in 0..room}

get_accounts ==
    /\ pc = "accounts_call"
    /\ \E ok \in BOOLEAN, al \in AccountLists(users[uidx].Id, MaxAccounts - Len(result.accounts)) :
         /\ Called("accounts")
         /\ acctCalls' = Append(acctCalls, users[uidx].Id)
         /\ IF ~ok
            THEN /\ al = <<>>
                 /\ Unwind("HTTPError", rstat)
                 /\ UNCHANGED <<accounts, result>>
            ELSE /\ accounts' = al
                 /\ result' = [result EXCEPT !.accounts = @ \o al]
                 /\ GotoNextAccount(al, 0)
                 /\ UNCHANGED <<exc, rstat>>
    /\ UNCHANGED <<prog, tokVars, amazonVars, include_performance_reports, submitCalls,
                   campLog, reportLog, users,
                   max_wait_seconds, report_id, elapsed, download_url,
                   pollLog, sleeps, lastPoll, downloadedFrom, rret>>

\* get_campaigns: every campaign is tagged with the account and customer id
CampaignLists == {<<>>, <<"c">>}
Tagged(data, account_id, customer_id) ==
    [i \in 1..Len(data) |->
        [campaign |-> data[i], AccountId |-> account_id, CustomerId |-> customer_id]]
get_campaigns ==
    /\ pc = "campaigns_call"
    /\ \E ok \in BOOLEAN, data \in CampaignLists :
         /\ Called("campaigns")
         /\ campLog' = Append(campLog, CampaignsCall(CurAccount.Id, ok, data))
         /\ IF ~ok
            THEN /\ data = <<>>
                 /\ Unwind("HTTPError", rstat)
                 /\ UNCHANGED result
            ELSE /\ result' = [result EXCEPT !.campaigns =
                        @ \o Tagged(data, CurAccount.Id, CurAccount.ParentCustomerId)]
                 /\ AfterCampaigns
                 /\ UNCHANGED <<exc, rstat>>
    /\ UNCHANGED <<prog, tokVars, amazonVars, include_performance_reports, acctCalls, submitCalls,
                   users,
                   accounts, reportLog, max_wait_seconds, report_id, elapsed,
                   download_url, pollLog, sleeps, lastPoll, downloadedFrom, rret>>

\* ------------------------------------------------------------------------
\* get_performance_report: submit, poll, download
\* ------------------------------------------------------------------------
NoPoll == [http |-> 0, st |-> None, url |-> None]

\* lines 236-247: a new report job is about to be submitted
ReportEnter ==
    /\ pc = "report_enter"
    /\ pc' = "submit_auth"
    /\ report_id' = None /\ download_url' = None
    /\ pollLog' = <<>> /\ sleeps' = 0
    /\ lastPoll' = NoPoll /\ downloadedFrom' = <<>>
    /\ rstat' = "submitting"
    /\ elapsed' = 0 /\ rret' = <<>> /\ exc' = ""
    /\ UNCHANGED <<prog, outcome, uidx, aidx, tokVars, wire, first, amazonVars,
                   include_performance_reports, acctCalls, submitCalls,
                   campLog, reportLog, users, accounts, result,
                   max_wait_seconds>>

\* submit_performance_report (the call of line 198) and line 253, where
\* start_time is taken;
\* data.get("ReportRequestId") is None when the field is missing
JobIds == IF InExtract THEN {"job1"} ELSE {"job1", Absent}
submit_performance_report ==
    /\ pc = "submit_call"
    /\ \E ok \in BOOLEAN, id \in JobIds :
         /\ Called("submit")
         /\ submitCalls' = Append(submitCalls, CurAccount.Id)
         /\ IF ~ok
            THEN /\ id = Absent
                 /\ Unwind("HTTPError", "failed")
                 /\ UNCHANGED <<report_id, elapsed>>
            ELSE /\ report_id' = IF id = Absent THEN None ELSE id
                 /\ elapsed' = 0
                 /\ rstat' = "pending"
                 /\ pc' = "poll_check"
                 /\ UNCHANGED <<outcome, uidx, aidx, exc>>
    /\ UNCHANGED <<prog, tokVars, amazonVars, include_performance_reports, acctCalls,
                   campLog, users,
                   accounts, result, max_wait_seconds, download_url,
                   pollLog, sleeps, lastPoll, downloadedFrom, rret>>
    /\ LogJob

\* WithinBudget with the loop test written <= : a poll is still issued when
\* the elapsed time has reached the budget
WithinBudgetInclusive(waited, maxWait) == waited <= maxWait

\* WithinBudget asking for room for a whole delay interval before a poll
WithinBudgetOneDelay(waited, maxWait) == waited + Delay <= maxWait

\* WithinBudget granting one more delay interval after the budget is spent
WithinBudgetGrace(waited, maxWait) == waited < maxWait + Delay

\* WithinBudget with the budget counted twice
WithinBudgetDoubled(waited, maxWait) == waited < 2 * maxWait

\* line 254: while time.time() - start_time < max_wait_seconds
WithinBudget(waited, maxWait) == waited < maxWait

\* the loop test, and line 269 when it fails
PollCheck ==
    /\ pc = "poll_check"
    /\ IF WithinBudget(elapsed, max_wait_seconds)
       THEN pc' = "poll_auth" /\ UNCHANGED <<outcome, uidx, aidx, exc, rstat>>
       ELSE Unwind("TimeoutError", "timedout")
    /\ UNCHANGED <<prog, tokVars, wire, first, amazonVars,
                   include_performance_reports, acctCalls, submitCalls,
                   campLog, users, accounts, result,
                   max_wait_seconds, report_id, elapsed, download_url,
                   pollLog, sleeps, lastPoll, downloadedFrom, rret>>
    /\ LogJob

\* Poll responses and how long a poll takes.  Inside extract_all the scripted
\* server answers slowly, so that a job that is not ready runs out of budget.
PollUrls == IF InExtract THEN {"u1"} ELSE {"u1", "u2", None}
PendingStatuses == IF InExtract THEN {"Pending"} ELSE {"Pending", None}
PollResponses ==
    {[http |-> 500, st |-> None, url |-> None]}
    \cup {[http |-> 200, st |-> "Success", url |-> u] : u \in PollUrls}
    \cup {[http |-> 200, st |-> x, url |-> None] : x \in {"Error"} \cup PendingStatuses}
PollDurations == IF InExtract THEN {DefaultMaxWait} ELSE {0, 7}

\* A poll as the loop sees it: an HTTP failure, one of the two statuses it
\* tests for, or any other status
PollClass(r) ==
    IF r.http >= 400 THEN "http-error"
    ELSE IF r.st \in {"Success", "Error"} THEN r.st ELSE "non-terminal"
polls == Len(pollLog)

\* AfterPoll testing only for "Error": every other status counts as ready
AfterPollEager(st) ==
    IF st = "Error" THEN "raise" ELSE "download"

\* AfterPoll without the elif of line 264: "Error" is one more status to
\* wait on
AfterPollNoError(st) ==
    IF st = "Success" THEN "download" ELSE "sleep"

\* What the loop does with the status of a poll response (lines 260-267)
AfterPoll(st) ==
    CASE st = "Success" -> "download"
      [] st = "Error" -> "raise"
      [] OTHER -> "sleep"

\* poll_report_status (the call of line 213) and lines 256-265
poll_report_status ==
    /\ pc = "poll_call"
    /\ \E r \in PollResponses, d \in PollDurations :
         /\ Called("poll")
         /\ pollLog' = Append(pollLog, PollClass(r))
         /\ elapsed' = elapsed + d
         /\ lastPoll' = r
         /\ IF r.http >= 400
            THEN Unwind("HTTPError", "failed") /\ UNCHANGED download_url
            ELSE CASE AfterPoll(r.st) = "download" ->
                        /\ download_url' = r.url
                        /\ rstat' = "success"
                        /\ pc' = "download"
                        /\ UNCHANGED <<outcome, uidx, aidx, exc>>
                   [] AfterPoll(r.st) = "raise" ->
                        Unwind("ReportGenerationFailed", "error")
                        /\ UNCHANGED download_url
                   [] AfterPoll(r.st) = "sleep" ->
                        /\ pc' = "sleep"
                        /\ UNCHANGED <<outcome, uidx, aidx, exc, rstat, download_url>>
    /\ UNCHANGED <<prog, tokVars, amazonVars, include_performance_reports, acctCalls, submitCalls,
                   campLog, users,
                   accounts, result, max_wait_seconds, report_id,
                   sleeps, downloadedFrom, rret>>
    /\ LogJob

\* line 267: time.sleep(10)
Sleep ==
    /\ pc = "sleep"
    /\ elapsed' = elapsed + Delay
    /\ sleeps' = sleeps + 1
    /\ pc' = "poll_check"
    /\ UNCHANGED <<prog, outcome, uidx, aidx, tokVars, wire, first, amazonVars,
                   include_performance_reports, acctCalls, submitCalls,
                   campLog, reportLog, users, accounts, result,
                   max_wait_seconds, report_id, download_url, pollLog,
                   lastPoll, downloadedFrom, rstat, rret, exc>>

\* lines 227-234: gzip.decompress, with the fallback to the raw bytes for
\* BadGzipFile / OSError only; then the CSV rows
Decode(payload) ==
    CASE payload.kind = "gzip" -> [raised |-> "", rows |-> payload.rows]
      [] payload.kind = "plain" -> [raised |-> "", rows |-> payload.rows]
      [] payload.kind = "truncated" -> [raised |-> "EOFError", rows |-> <<>>]
      [] payload.kind = "badcrc" -> [raised |-> "UnicodeDecodeError", rows |-> <<>>]
Payloads ==
    IF InExtract
    THEN {[kind |-> "gzip", rows |-> <<"r1">>], [kind |-> "truncated", rows |-> <<"r1">>]}
    ELSE {[kind |-> k, rows |-> rw] :
            k \in {"gzip", "plain", "truncated", "badcrc"}, rw \in {<<>>, <<"r1", "r2">>}}

\* What the caller does with the records (lines 263, 327-332)
ReportReturn(records) ==
    /\ rret' = records
    /\ IF InExtract
       THEN /\ result' = [result EXCEPT !.performance_reports =
                   Append(@, [account_id |-> CurAccount.Id, data |-> records])]
            /\ GotoNextAccount(accounts, aidx)
       ELSE /\ pc' = "done" /\ outcome' = "returned"
            /\ UNCHANGED <<uidx, aidx, result>>

\* download_report: requests.get(download_url) has nothing to fetch when the
\* poll response carried no URL
download_report ==
    /\ pc = "download"
    /\ IF download_url = None
       THEN /\ Unwind("MissingSchema", rstat)
            /\ UNCHANGED <<wire, first, downloadedFrom, rret, result>>
       ELSE \E ok \in BOOLEAN, payload \in Payloads :
              /\ Called("download")
              /\ downloadedFrom' = Append(downloadedFrom,
                                           [url |-> download_url, payload |-> payload])
              /\ IF ~ok
                 THEN /\ payload.kind = "gzip" /\ payload.rows = <<"r1">>
                      /\ Unwind("HTTPError", rstat)
                      /\ UNCHANGED <<rret, result>>
                 ELSE LET d == Decode(payload) IN
                      IF d.raised # ""
                      THEN Unwind(d.raised, rstat) /\ UNCHANGED <<rret, result>>
                      ELSE ReportReturn(d.rows) /\ UNCHANGED <<exc, rstat>>
    /\ UNCHANGED <<prog, tokVars, amazonVars, include_performance_reports, acctCalls, submitCalls,
                   campLog, users,
                   accounts, max_wait_seconds, report_id, elapsed,
                   download_url, pollLog, sleeps, lastPoll>>
    /\ LogJob

\* ------------------------------------------------------------------------
\* The specification
\* ------------------------------------------------------------------------
vars == <<prog, pc, outcome, access_token, wire, first, tokenLog,
          startIndex, payloadNext, campaigns, reqs, resps, fn, fstat, fret,
          profiles, pidx, partial, all_data,
          fetchLog, include_performance_reports, users, uidx, accounts, aidx, result,
          campLog, reportLog, acctCalls, submitCalls, max_wait_seconds, report_id, elapsed, download_url,
          pollLog, sleeps, lastPoll, downloadedFrom, rstat, rret, exc>>

EntryPc(p) ==
    CASE p = "fetch_all_data" -> "refresh"
      [] p = "get_sponsored_display_campaigns" -> "sd_enter"
      [] p = "get_sponsored_brands_campaigns" -> "sb_enter"
      [] p = "get_sponsored_products_campaigns" -> "sp_enter"
      [] p = "get_attribution_performance_campaign" -> "attr_enter"
      [] p = "extract_all" -> "users_auth"
      [] p = "get_performance_report" -> "report_enter"

Progs == FetchProgs \cup {"fetch_all_data", "extract_all", "get_performance_report"}
MaxWaits == {-1, 0, 1, 5, 25, DefaultMaxWait}

Init ==
    /\ prog \in Progs
    /\ pc = EntryPc(prog)
    /\ outcome = "running"
    /\ access_token = None
    /\ wire = [ep |-> "none", bit |-> 0]
    /\ first = "none"
    /\ tokenLog = <<>>
    /\ startIndex = 0 /\ payloadNext = Absent /\ campaigns = <<>>
    /\ reqs = <<>> /\ resps = <<>> /\ fn = "none"
    /\ fstat = "idle" /\ fret = <<>>
    /\ profiles = <<>> /\ pidx = 1 /\ partial = <<>>
    /\ all_data = [profiles |-> <<>>, campaigns |-> <<>>, performance |-> <<>>]
    /\ include_performance_reports \in
          (IF prog = "extract_all" THEN BOOLEAN ELSE {TRUE})
    /\ users = <<>> /\ uidx = 0 /\ accounts = <<>> /\ aidx = 0
    /\ result = [users |-> <<>>, accounts |-> <<>>, campaigns |-> <<>>,
                 performance_reports |-> <<>>]
    /\ fetchLog = <<>> /\ campLog = <<>> /\ reportLog = <<>>
    /\ acctCalls = <<>> /\ submitCalls = <<>>
    /\ max_wait_seconds \in
          (IF prog = "get_performance_report" THEN MaxWaits ELSE {DefaultMaxWait})
    /\ report_id = None /\ elapsed = 0 /\ download_url = None
    /\ pollLog = <<>> /\ sleeps = 0 /\ lastPoll = NoPoll /\ downloadedFrom = <<>>
    /\ rstat = "none" /\ rret = <<>> /\ exc = ""

Next ==
    \/ refresh_access_token
    \/ get_profiles
    \/ SDEnter \/ SDStep
    \/ SBEnter \/ SBStep
    \/ SPEnter \/ SPStep
    \/ AttrEnter \/ AttrStep
    \/ get_access_token
    \/ get_users
    \/ get_accounts
    \/ get_campaigns
    \/ ReportEnter
    \/ submit_performance_report
    \/ PollCheck
    \/ poll_report_status
    \/ Sleep
    \/ download_report

Spec == Init /\ [][Next]_vars

\* A paginated fetch called on its own: one sequential loop, in which a
\* request that was sent is answered or fails, against a provider that ends
\* the listing within MaxPages pages.
FetchInit == Init /\ prog \in FetchProgs
FetchNext ==
    \/ SDEnter \/ SDStep
    \/ SBEnter \/ SBStep
    \/ SPEnter \/ SPStep
    \/ AttrEnter \/ AttrStep
FetchSpec == FetchInit /\ [][FetchNext]_vars /\ WF_vars(FetchNext)

\* get_performance_report called on its own.  The method is one sequential
\* thread: a call that was issued returns or raises, and a sleep ends, so a
\* step that is possible is eventually taken.
ReportInit == Init /\ prog = "get_performance_report"
ReportNext ==
    \/ ReportEnter
    \/ get_access_token
    \/ submit_performance_report
    \/ PollCheck
    \/ poll_report_status
    \/ Sleep
    \/ download_report
ReportSpec == ReportInit /\ [][ReportNext]_vars /\ WF_vars(ReportNext)

\* ------------------------------------------------------------------------
\* Properties of the paginated fetches
\* ------------------------------------------------------------------------
\* Items a response contributes: the list of a 200 that carries one
PageItems(r) == IF r.status = 200 /\ r.hasItems THEN r.items ELSE <<>>
RECURSIVE Flatten(_)
Flatten(rs) == IF rs = <<>> THEN <<>> ELSE PageItems(Head(rs)) \o Flatten(Tail(rs))
Front(sq) == SubSeq(sq, 1, Len(sq) - 1)
Last(sq) == sq[Len(sq)]
FullPage(r) == r.status = 200 /\ Len(r.items) = PageSize

\* C1: a paginated fetch that leaves its loop normally returns exactly the
\* concatenation of the item lists of all responses it received, in arrival
\* order (nothing dropped, duplicated, de-duplicated or re-ordered), and that
\* is the list fetch_all_data stores for the profile.
C1_ConcatenationOfPages ==
    /\ fstat = "returned" => fret = Flatten(resps)
    /\ (InRun /\ pc = "attr_enter" /\ fstat = "returned") =>
          all_data.campaigns[profiles[pidx]].sponsored_products = Flatten(resps)
C1_Witness ==
    /\ fn = "sb" /\ fstat = "returned" /\ Len(resps) = 3
    /\ fret = <<"a", "b", "a", "a">>

\* C2: a fetch whose request fails after k >= 1 successful pages returns the
\* items accumulated from those k pages.
C2_PartialResultOnFailure ==
    (fstat = "failed" /\ Len(resps) >= 2) => fret = Flatten(Front(resps))

\* C3: the offset fetch requests startIndex 0, 100, 200, ...; every page
\* before the last one received is a full page; it stops right after the
\* first empty or short page and goes on after a full one; 100 then 40
\* items give two calls and 140 items.
C3_OffsetPaging ==
    fn = "sd" =>
      /\ \A i \in 1..Len(reqs) : reqs[i] = (i - 1) * PageSize
      /\ Len(reqs) = Len(resps)
      /\ \A i \in 1..(Len(resps) - 1) : FullPage(resps[i])
      /\ (resps # <<>> /\ Last(resps).status = 200) =>
            (fstat = "returned" <=> Len(Last(resps).items) < PageSize)
      /\ (resps # <<>> /\ FullPage(Last(resps))) =>
            (fstat = "active" /\ pc = "sd_loop" /\ startIndex = Len(resps) * PageSize)
      /\ (Len(resps) = 2 /\ Len(resps[1].items) = 100 /\ resps[2].status = 200
            /\ Len(resps[2].items) = 40) =>
            (fstat = "returned" /\ Len(reqs) = 2 /\ Len(fret) = 140)
C3_Witness ==
    /\ fn = "sd" /\ fstat = "returned" /\ reqs = <<0, 100>> /\ Len(fret) = 140

\* C4: in the token and cursor fetches the first request carries no token,
\* every later request carries the token of the response just before it, and
\* the fetch stops right after the first 200 response whose token is absent
\* or empty, whose items are still part of the result.
C4_TokenPaging ==
    fn \in {"sb", "sp", "attr"} =>
      /\ Len(reqs) = Len(resps)
      /\ reqs # <<>> => reqs[1] = Absent
      /\ \A i \in 2..Len(reqs) :
            /\ resps[i - 1].status = 200
            /\ resps[i - 1].next \notin Falsy
            /\ reqs[i] = resps[i - 1].next
      /\ (resps # <<>> /\ Last(resps).status = 200) =>
            /\ fstat = "returned" <=> Last(resps).next \in Falsy
            /\ fstat = "active" <=> Last(resps).next \notin Falsy
            /\ fstat = "returned" =>
                 fret = Flatten(Front(resps)) \o PageItems(Last(resps))
      /\ (Len(resps) = 1 /\ resps[1].status = 200 /\ resps[1].next = Absent) =>
            (fstat = "returned" /\ Len(reqs) = 1 /\ fret = PageItems(resps[1]))
C4_Witness ==
    /\ fn = "attr" /\ fstat = "returned" /\ reqs = <<Absent, "t1", "t2">>
    /\ Last(resps).status = 200 /\ Last(resps).next = "" /\ Last(resps).items = <<"a">>

\* C5: in the attribution fetch a 400 ends the loop as "no more data": it is
\* the last response, the fetch returns what the earlier pages accumulated,
\* and it does not take the error path a 500 takes.
C5_BadRequestEndsCleanly ==
    (fn = "attr" /\ resps # <<>>) =>
      /\ \A i \in 1..(Len(resps) - 1) : resps[i].status = 200
      /\ Last(resps).status = 400 =>
            (fstat = "returned" /\ fret = Flatten(Front(resps)) /\ pc # "attr_loop")
      /\ Last(resps).status = 500 => fstat = "failed"
C5_Witness ==
    /\ fn = "attr" /\ Len(resps) = 3 /\ Last(resps).status = 400
    /\ fstat = "returned" /\ fret = <<"b", "a", "a">>

\* ------------------------------------------------------------------------
\* Properties of token acquisition
\* ------------------------------------------------------------------------
Runs == {"fetch_all_data", "extract_all"}
GaveToken(r) == r.status = 200 /\ r.token # Absent

C7_TokenPresentOrError ==
    (tokenLog # <<>> /\ access_token = None) => outcome = "raised"

\* C8: in fetch_all_data and extract_all the token endpoint call is the first
\* network call, and when it fails the run is aborted: it stays the only
\* call, and no result document is built or returned.
C8_TokenFirstAndFatal ==
    prog \in Runs =>
      /\ first \in {"none", "token"}
      /\ first = "none" <=> tokenLog = <<>>
      /\ (tokenLog # <<>> /\ tokenLog[1].status >= 400) =>
            /\ outcome = "raised" /\ pc = "aborted"
            /\ wire = [ep |-> "token", bit |-> 1]
            /\ Len(tokenLog) = 1
            /\ all_data = [profiles |-> <<>>, campaigns |-> <<>>, performance |-> <<>>]
            /\ result = [users |-> <<>>, accounts |-> <<>>, campaigns |-> <<>>,
                         performance_reports |-> <<>>]
C8_Witness ==
    /\ prog = "extract_all" /\ pc = "aborted" /\ outcome = "raised"
    /\ tokenLog = <<[status |-> 500, token |-> Absent]>>

\* ------------------------------------------------------------------------
\* Properties of the report job
\* ------------------------------------------------------------------------
LoopPcs == {"poll_check", "poll_auth", "poll_call", "sleep"}
\* get_performance_report has returned its records to the caller
ReportReturned == rstat = "success" /\ pc # "download" /\ exc = ""

\* C9: a job whose polls 1..N-1 are non-terminal and whose poll N is Success
\* has made exactly N polls, each inside the budget, with one 10-second sleep
\* between consecutive polls and none after the last; it leaves the poll
\* loop for good, downloads once, from the URL of poll N, and returns the
\* records of that download.
C9_SuccessOnNthPoll ==
    /\ pc \in {"poll_check", "poll_auth", "poll_call"} => sleeps = polls
    /\ pc = "sleep" => sleeps = polls - 1
    /\ pc \in {"poll_auth", "poll_call"} => elapsed < max_wait_seconds
    /\ pc \in LoopPcs => elapsed >= sleeps * Delay
    /\ rstat = "success" =>
         /\ polls >= 1
         /\ \A i \in 1..(polls - 1) : pollLog[i] = "non-terminal"
         /\ pollLog[polls] = "Success" /\ lastPoll.st = "Success"
         /\ sleeps = polls - 1
         /\ elapsed >= sleeps * Delay
         /\ pc \notin LoopPcs
         /\ download_url = lastPoll.url
         /\ Len(downloadedFrom) <= 1
         /\ \A i \in 1..Len(downloadedFrom) : downloadedFrom[i].url = lastPoll.url
         /\ pc = "download" => downloadedFrom = <<>>
    /\ ReportReturned =>
         /\ Len(downloadedFrom) = 1
         /\ rret = downloadedFrom[1].payload.rows
         /\ InExtract => Last(result.performance_reports).data = rret
C9_Witness ==
    /\ prog = "get_performance_report" /\ outcome = "returned"
    /\ pollLog = <<"non-terminal", "non-terminal", "Success">> /\ sleeps = 2
    /\ lastPoll.url = "u2" /\ downloadedFrom[1].url = "u2"
    /\ rret = <<"r1", "r2">>

\* C10: the first poll that reports Error ends the job at that poll: the
\* report-generation error is raised, no sleep, poll or download follows;
\* a job that sees Error on every poll makes exactly one poll and no sleep.
C10_ErrorEndsJob ==
    /\ \A i \in 1..polls : pollLog[i] = "Error" =>
         /\ i = polls
         /\ rstat = "error"
         /\ lastPoll.st = "Error"
         /\ pc \notin JobPcs
         /\ sleeps = polls - 1
         /\ downloadedFrom = <<>>
         /\ prog = "get_performance_report" =>
               (outcome = "raised" /\ exc = "ReportGenerationFailed")
    /\ (polls >= 1 /\ \A i \in 1..polls : pollLog[i] = "Error") =>
         (polls = 1 /\ sleeps = 0 /\ max_wait_seconds > 0)
    /\ rstat = "error" => pollLog[polls] = "Error"
C10_Witness ==
    /\ prog = "get_performance_report" /\ max_wait_seconds = 5
    /\ pollLog = <<"Error">> /\ sleeps = 0
    /\ outcome = "raised" /\ exc = "ReportGenerationFailed"

JobOver == rstat \in {"timedout", "success", "error", "failed"}
TransportFailures == {"HTTPError", "KeyError"}

\* C11: a submitted job whose polls all come back without Success or Error
\* ends, and ends with the timeout error: the TimeoutError is raised once the
\* elapsed time has reached max_wait_seconds, nothing was downloaded, and no
\* poll is issued once the loop test has seen elapsed >= max_wait_seconds.
C11_TimesOut ==
    /\ [](/\ pc \in {"poll_auth", "poll_call"} => elapsed < max_wait_seconds
          /\ rstat = "timedout" =>
               /\ exc = "TimeoutError" /\ outcome = "raised" /\ pc = "aborted"
               /\ elapsed >= max_wait_seconds
               /\ \A i \in 1..polls : pollLog[i] = "non-terminal"
               /\ sleeps = polls
               /\ downloadedFrom = <<>>
          /\ (/\ JobOver /\ exc \notin TransportFailures
              /\ \A i \in 1..polls : pollLog[i] = "non-terminal") =>
               rstat = "timedout")
    /\ (rstat = "pending" /\ Truthy(access_token)) ~> JobOver
C11_Witness ==
    /\ rstat = "timedout" /\ max_wait_seconds = 25 /\ outcome = "raised"
    /\ pollLog = <<"non-terminal", "non-terminal", "non-terminal">>
    /\ sleeps = 3 /\ elapsed = 3 * Delay + 7

Submitted == rstat \notin {"none", "submitting", "failed"} \/ polls > 0

\* C12: the loop test comes before every poll.  A job times out without a
\* single poll, right after the submit call, exactly when the budget is
\* already spent at loop entry (max_wait_seconds <= 0); with any budget
\* still open at loop entry, one time unit included, the first poll is
\* issued, however long it takes, before a timeout can be raised.
C12_CheckBeforeEveryPoll ==
    /\ pc \in {"poll_auth", "poll_call"} => elapsed < max_wait_seconds
    /\ (rstat = "timedout" /\ polls = 0) =>
          (max_wait_seconds <= 0 /\ wire.ep = "submit" /\ elapsed = 0 /\ sleeps = 0)
    /\ (max_wait_seconds <= 0 /\ Submitted) =>
          /\ polls = 0
          /\ rstat \in {"pending", "timedout"}
          /\ rstat = "pending" => pc = "poll_check"
    /\ (max_wait_seconds > 0 /\ rstat = "timedout") => polls >= 1
    /\ (max_wait_seconds > 0 /\ rstat = "pending" /\ polls = 0) =>
          pc \in {"poll_check", "poll_auth", "poll_call"}
C12_Witness ==
    /\ max_wait_seconds = 1 /\ rstat = "timedout" /\ exc = "TimeoutError"
    /\ pollLog = <<"non-terminal">> /\ elapsed = 7 + Delay

\* C13 as stated: with 0 < max_wait_seconds < 10 the job makes no poll and
\* ends in the timeout error.
C13_ShortBudgetNoPoll ==
    (max_wait_seconds > 0 /\ max_wait_seconds < Delay) =>
        (polls = 0 /\ (JobOver => rstat = "timedout"))

\* C13 as amended: with 0 < max_wait_seconds < 10 the first poll is still
\* issued; the job makes at most one poll, and it times out only after
\* exactly one poll, which was non-terminal, and the one sleep that follows.
C13_ShortBudgetOnePoll ==
    (max_wait_seconds > 0 /\ max_wait_seconds < Delay) =>
        /\ polls <= 1
        /\ (pc = "poll_check" /\ polls = 0) => WithinBudget(elapsed, max_wait_seconds)
        /\ rstat = "timedout" =>
             /\ pollLog = <<"non-terminal">> /\ sleeps = 1
             /\ elapsed >= Delay
             /\ exc = "TimeoutError"
C13_Witness ==
    /\ max_wait_seconds = 5 /\ rstat = "timedout" /\ outcome = "raised"
    /\ pollLog = <<"non-terminal">> /\ sleeps = 1 /\ elapsed = Delay

\* C14: a submit call that fails, or that answers without a ReportRequestId,
\* ends the job with an error: no poll and no download is issued for it.
C14_SubmitNeedsJobId ==
    (rstat # "none" /\ report_id = None) =>
        /\ rstat \in {"submitting", "failed"}
        /\ polls = 0 /\ downloadedFrom = <<>>

\* ------------------------------------------------------------------------
\* Properties of the runs
\* ------------------------------------------------------------------------
Range(sq) == {sq[i] : i \in 1..Len(sq)}
ValidAccounts == SelectSeq(result.accounts, ValidAccount)
AccountById(id) == CHOOSE a \in Range(result.accounts) : a.Id = id
\* The campaigns the successful get_campaigns calls delivered, tagged
RECURSIVE CampaignsOf(_)
CampaignsOf(log) ==
    IF log = <<>> THEN <<>>
    ELSE (IF Head(log).ok
          THEN Tagged(Head(log).data, Head(log).id,
                      AccountById(Head(log).id).ParentCustomerId)
          ELSE <<>>) \o CampaignsOf(Tail(log))
FetchOrder == <<"sd", "sb", "sp", "attr">>
CampaignKey(f) ==
    CASE f = "sd" -> "sponsored_display"
      [] f = "sb" -> "sponsored_brands"
      [] f = "sp" -> "sponsored_products"

\* C15: a campaign fetch that fails for one account or profile does not stop
\* the run.  extract_all: campaigns are fetched once for every valid account
\* in turn, a failed fetch is followed by the report of the same account and
\* by the next accounts, the result holds exactly the campaigns of the
\* fetches that succeeded, and only a token, users or accounts failure ends
\* the run with an exception.  fetch_all_data: the four fetches are made for
\* every profile in turn whatever failed before, every stored list is the
\* one its fetch returned, and only the token failure ends the run.
C15_CampaignFailureContained ==
    /\ InExtract =>
         /\ Len(campLog) <= Len(ValidAccounts)
         /\ \A i \in 1..Len(campLog) : campLog[i].id = ValidAccounts[i].Id
         /\ result.campaigns = CampaignsOf(campLog)
         /\ outcome = "raised" => wire.ep \in {"token", "users", "accounts"}
         /\ outcome = "returned" => Len(campLog) = Len(ValidAccounts)
         /\ pc = "report_enter" =>
              (campLog # <<>> /\ Last(campLog).id = CurAccount.Id)
    /\ InRun =>
         /\ outcome = "raised" => (pc = "aborted" /\ wire.ep = "token")
         /\ \A k \in 1..Len(fetchLog) :
              LET e == fetchLog[k] IN
              /\ e.pid = profiles[((k - 1) \div 4) + 1]
              /\ e.fn = FetchOrder[((k - 1) % 4) + 1]
              /\ ~e.ok => e.items = <<>>
              /\ (e.fn # "attr" /\ e.pid \in DOMAIN all_data.campaigns) =>
                    all_data.campaigns[e.pid][CampaignKey(e.fn)] = e.items
              /\ (e.fn = "attr" /\ e.pid \in DOMAIN all_data.performance) =>
                    all_data.performance[e.pid].attribution_campaign = e.items
         /\ outcome = "returned" =>
              /\ Len(fetchLog) = 4 * Len(profiles)
              /\ DOMAIN all_data.campaigns = Range(profiles)
              /\ DOMAIN all_data.performance = Range(profiles)
C15_Witness ==
    /\ InExtract /\ outcome = "returned"
    /\ campLog = <<CampaignsCall(11, TRUE, <<"c">>), CampaignsCall(12, FALSE, <<>>),
                   CampaignsCall(13, TRUE, <<"c">>)>>
    /\ Len(result.campaigns) = 2
    /\ Len(result.performance_reports) = 3

\* C16: in extract_all only a token failure ends the run with an exception;
\* the failure of any other call, the users query and the accounts search
\* included, is contained and the run returns its result.
C16_OnlyTokenFailureAborts ==
    (InExtract /\ outcome = "raised") => wire.ep = "token"

RECURSIVE OkIds(_)
OkIds(log) ==
    IF log = <<>> THEN <<>>
    ELSE (IF Head(log).ok THEN <<Head(log).id>> ELSE <<>>) \o OkIds(Tail(log))
ReportFailedStates == {"failed", "error", "timedout"}

\* C17: in extract_all a report job that fails at any stage (submit, poll,
\* Error status, timeout, download, decode) leaves no entry in
\* performance_reports, leaves the campaigns collected so far untouched and
\* does not end the run: the next accounts are processed.  One job is run
\* per account whose campaigns were requested, and performance_reports holds
\* exactly the accounts whose job returned, in processing order.
C17_ReportFailureContained ==
    InExtract =>
      /\ Len(reportLog) <= Len(campLog)
      /\ \A k \in 1..Len(reportLog) : reportLog[k].id = campLog[k].id
      /\ [i \in 1..Len(result.performance_reports) |->
             result.performance_reports[i].account_id] = OkIds(reportLog)
      /\ result.campaigns = CampaignsOf(campLog)
      /\ outcome = "raised" => wire.ep \notin {"submit", "poll", "download"}
      /\ (outcome = "returned" /\ include_performance_reports) =>
             Len(reportLog) = Len(ValidAccounts)
      /\ (pc \notin ReportPcs /\ reportLog # <<>> /\ Len(reportLog) = Len(campLog)) =>
             /\ rstat \in ReportFailedStates => ~Last(reportLog).ok
             /\ (downloadedFrom # <<>> /\ Decode(downloadedFrom[1].payload).raised # "")
                   => ~Last(reportLog).ok
             /\ downloadedFrom = <<>> => ~Last(reportLog).ok
             /\ Last(reportLog).ok =>
                   Last(result.performance_reports) =
                      [account_id |-> Last(reportLog).id,
                       data |-> downloadedFrom[1].payload.rows]
C17_Witness ==
    /\ InExtract /\ outcome = "returned"
    /\ reportLog = <<[id |-> 11, ok |-> TRUE], [id |-> 12, ok |-> FALSE],
                     [id |-> 13, ok |-> TRUE]>>
    /\ Len(result.performance_reports) = 2
    /\ Len(result.campaigns) = 3

\* C18: in the result of fetch_all_data the list of a fetch is there exactly
\* when the fetch did not fail: a failed fetch leaves its key out, a fetch
\* that returned no item leaves an empty list.
C18_AbsentIffFailed ==
    InRun =>
      \A k \in 1..Len(fetchLog) :
          LET e == fetchLog[k] IN
          (e.fn # "attr" /\ e.pid \in DOMAIN all_data.campaigns) =>
              (e.ok <=> CampaignKey(e.fn) \in DOMAIN all_data.campaigns[e.pid])

\* C19: a payload that gzip.decompress rejects, plain text or a damaged gzip
\* stream alike, never makes download_report raise the decompression
\* failure: the raw bytes are decoded instead, and a plain payload yields
\* its rows.
C19_DecompressFailureFallsBack ==
    (prog = "get_performance_report" /\ downloadedFrom # <<>>
        /\ wire.ep = "download" /\ lastPoll.http = 200
        /\ downloadedFrom[1].payload.kind \in {"plain", "truncated"}) =>
            /\ exc # "EOFError"
            /\ downloadedFrom[1].payload.kind = "plain" =>
                  (outcome = "returned" /\ rret = downloadedFrom[1].payload.rows)

\* C20: with include_performance_reports false, extract_all never enters a
\* report job: no submit, poll or download call is made and
\* performance_reports stays empty, while campaigns are fetched for every
\* valid account of every user as they are otherwise.
C20_NoReportsWhenNotRequested ==
    (InExtract /\ ~include_performance_reports) =>
      /\ pc \notin ReportPcs
      /\ wire.ep \notin {"submit", "poll", "download"}
      /\ reportLog = <<>> /\ rstat = "none" /\ pollLog = <<>> /\ downloadedFrom = <<>>
      /\ result.performance_reports = <<>>
      /\ Len(campLog) <= Len(ValidAccounts)
      /\ \A i \in 1..Len(campLog) : campLog[i].id = ValidAccounts[i].Id
      /\ result.campaigns = CampaignsOf(campLog)
      /\ outcome = "returned" =>
            (Len(campLog) = Len(ValidAccounts) /\ result.users = users)
C20_Witness ==
    /\ InExtract /\ ~include_performance_reports /\ outcome = "returned"
    /\ Len(users) = 2 /\ Len(result.accounts) = 3 /\ Len(campLog) = 3
    /\ Len(result.campaigns) = 2 /\ wire.ep = "campaigns"

TerminalStates == {"success", "error", "timedout"}
Distinct(sq) == \A i, j \in 1..Len(sq) : sq[i] = sq[j] => i = j

Ceil(a, b) == (a + b - 1) \div b

\* C22: with max_wait_seconds > 0 a report job makes at most
\* ceil(max_wait_seconds / 10) polls, and a job that times out after polls
\* that took no time makes exactly that many: 30 for the default of 300.
C22_PollsBoundedByBudget ==
    /\ max_wait_seconds > 0 => polls <= Ceil(max_wait_seconds, Delay)
    /\ max_wait_seconds <= 0 => polls = 0
    /\ (max_wait_seconds > 0 /\ rstat = "timedout" /\ elapsed = sleeps * Delay) =>
          /\ polls = Ceil(max_wait_seconds, Delay)
          /\ \A i \in 1..polls : pollLog[i] = "non-terminal"
          /\ max_wait_seconds = DefaultMaxWait => polls = 30
C22_Witness ==
    /\ max_wait_seconds = DefaultMaxWait /\ rstat = "timedout"
    /\ polls = 30 /\ sleeps = 30 /\ elapsed = 300 /\ exc = "TimeoutError"

\* A response after which the loop goes round again
Continuing(f, r) ==
    /\ r.status = 200
    /\ IF f = "sd" THEN Len(r.items) = PageSize ELSE r.next \notin Falsy

\* C23: a paginated fetch ends once the provider sends a terminating
\* response (empty or short page, absent or empty token, 400 for the cursor
\* fetch, or a failure), which a provider that ends its listing always
\* does; the client itself never stops: after a full page or a non-empty
\* token, be it the token just sent, the fetch is still in its loop,
\* whatever the number of pages so far.
C23_FetchEndsOnlyOnProvider ==
    /\ [](fn # "none" =>
            /\ Len(reqs) = Len(resps)
            /\ \A i \in 1..(Len(resps) - 1) : Continuing(fn, resps[i])
            /\ resps # <<>> =>
                 /\ Continuing(fn, Last(resps)) =>
                       (fstat = "active" /\ pc \in {"sd_loop", "sb_loop", "sp_loop", "attr_loop"})
                 /\ ~Continuing(fn, Last(resps)) => fstat \in {"returned", "failed"})
    /\ (fstat = "active") ~> (fstat \in {"returned", "failed"})
C23_Witness ==
    /\ fn = "sb" /\ fstat = "returned" /\ reqs = <<Absent, "t1", "t1">>
    /\ resps[2].next = "t1" /\ Last(resps).next = Absent

UsersWithId == SelectSeq(users, LAMBDA u : u.Id # 0)
AccountsWithIds ==
    SelectSeq(result.accounts, LAMBDA a : a.Id # 0 /\ a.ParentCustomerId # 0)

\* C24: in extract_all the accounts search is called for the users that
\* have an Id, each in turn, and for no other; campaigns and reports are
\* requested for the accounts that have both an Id and a ParentCustomerId,
\* each in turn, and for no other; the users and accounts without them are
\* in the result all the same, and the run goes on past them to the end.
C24_IncompleteEntitiesSkipped ==
    InExtract =>
      /\ result.users = users
      /\ Len(accounts) <= Len(result.accounts)
      /\ accounts # <<>> =>
            SubSeq(result.accounts, Len(result.accounts) - Len(accounts) + 1,
                   Len(result.accounts)) = accounts
      /\ Len(acctCalls) <= Len(UsersWithId)
      /\ \A k \in 1..Len(acctCalls) : acctCalls[k] = UsersWithId[k].Id
      /\ Len(campLog) <= Len(AccountsWithIds)
      /\ \A k \in 1..Len(campLog) : campLog[k].id = AccountsWithIds[k].Id
      /\ \A k \in 1..Len(submitCalls) : submitCalls[k] = AccountsWithIds[k].Id
      /\ pc \in {"accounts_auth", "accounts_call"} => users[uidx].Id # 0
      /\ pc \in {"campaigns_auth", "campaigns_call"} \cup ReportPcs =>
            (accounts[aidx].Id # 0 /\ accounts[aidx].ParentCustomerId # 0)
      /\ outcome = "returned" =>
            /\ Len(acctCalls) = Len(UsersWithId)
            /\ Len(campLog) = Len(AccountsWithIds)
            /\ include_performance_reports => Len(submitCalls) = Len(AccountsWithIds)
C24_Witness ==
    /\ InExtract /\ outcome = "returned"
    /\ result.users = <<User(0), User(2)>> /\ acctCalls = <<2>>
    /\ result.accounts = <<Account(21, 0), Account(22, 2), Account(23, 2)>>
    /\ Len(campLog) = 2 /\ campLog[1].id = 22 /\ submitCalls = <<22, 23>>

====
